---------------------------- MODULE Spec2Model ----------------------------
(***************************************************************************)
(* A model of the GoDirect protocol engine, class Device of                *)
(* src/src/godirect/Device.ts, with the Sensor/EventEmitter code of        *)
(* src/unnamed/part_000.                                                    *)
(*                                                                         *)
(* Bytes are naturals in 0..255, buffers are sequences of bytes.  A JS     *)
(* index i is the TLA+ index i+1.  Every callback of the JS event loop     *)
(* (an API call, a 10 ms write tick, a 5 s timeout, a transport            *)
(* notification) is one action; the promise continuations it triggers are  *)
(* microtasks, which run before the next callback, and are part of the     *)
(* same action.                                                            *)
(***************************************************************************)
EXTENDS Integers, Sequences, FiniteSets, TLC

VARIABLES
    writeQueue,              \* Device.writeQueue: the pending entries, in push order
    rollingCounter,          \* Device.rollingCounter, a JS number (not reduced mod 256)
    timers,                  \* the pending setTimeout callbacks of #queueWriteCommand, oldest first
    promise,                 \* promise[id]: the promise returned by the id-th sendCommand call
    response,                \* Device.response (<<>> stands for null)
    remainingResponseLength, \* Device.remainingResponseLength
    opened,                  \* Device.opened
    collecting,              \* Device.collecting
    intervals,               \* the live setInterval handles created by #connect
    deviceWriteInterval,     \* Device.deviceWriteInterval (0 stands for undefined)
    sensors,                 \* Device.sensors, in push order
    measurementPeriod,       \* Device.measurementPeriod, in microseconds (the code keeps ms)
    defaultSensorsMask,      \* Device.defaultSensorsMask
    availableSensors,        \* Device.availableSensors
    adapter,                 \* the kind of Device.device: "usb" or "ble"
    link,                    \* transport: "down", "up", or "lost" (down, its disconnect event not yet delivered)
    setups,                  \* transport: the autoStart flags of the open() calls awaiting device.setup()
    inbound,                 \* transport: the bytes of the response in delivery not yet notified
    writing,                 \* the #writeToDevice calls awaiting device.writeCommand, oldest first
    queued,                  \* history: queued[id] is the packet of the id-th sendCommand call
    wrote,                   \* history: ids of the entries handed to #writeToDevice
    whole,                   \* history: <<v>> for the view v of the device had the response in delivery been notified whole
    last                     \* history: what the last callback did

vars == <<writeQueue, rollingCounter, timers, promise, response,
          remainingResponseLength, opened, collecting, intervals,
          deviceWriteInterval, sensors, measurementPeriod, defaultSensorsMask,
          availableSensors, adapter, link, setups, inbound, writing, queued, wrote,
          whole, last>>

-----------------------------------------------------------------------------
(* Bounds of the model *)

\* sendCommand calls per behaviour of Spec (the promise ids are 1..MaxSends)
MaxSends == 3

\* sendCommand calls per behaviour of SpecLife
MaxLifeSends == 13

\* collection runs started (by open or start) and stop() calls per behaviour of SpecLife
MaxLifeCalls == 1

\* sendCommand calls made by the application itself
MaxUserSends == 1

\* open() calls that reach device.setup()
MaxOpens == 1

\* responses up to this length are notified in chunks of every size
MaxFineChunked == 7

-----------------------------------------------------------------------------
(* constants.js (not among the sources): the protocol constants *)

HEADER == <<88, 0, 0, 0>>
INIT == <<26, 165, 74, 6, 73, 7, 72, 8, 71, 9, 70, 10, 69, 11, 68, 12, 67, 13, 66, 14, 65>>
DISCONNECT == <<84>>
GET_STATUS == <<16>>
GET_DEFAULT_SENSORS_MASK == <<86>>
GET_SENSOR_IDS == <<81>>
GET_SENSOR_INFO == <<80, 0>>
GET_INFO == <<85>>
START_MEASUREMENTS == <<24, 255, 1, 0, 0, 0, 0, 0, 0, 0, 0, 0, 0, 0, 0>>
STOP_MEASUREMENTS == <<25, 255, 0, 255, 255, 255, 255>>
SET_MEASUREMENT_PERIOD == <<27, 255, 0, 0, 0, 0, 0, 0, 0, 0, 0>>
ResponseTypeMeasurement == 32
NORMAL_REAL32 == 6
WIDE_REAL32 == 7
SINGLE_CHANNEL_REAL32 == 8
SINGLE_CHANNEL_INT32 == 9
APERIODIC_REAL32 == 10
APERIODIC_INT32 == 11

\* the value #init stores in the rolling counter
InitRollingCounter == 255

Byte == 0..255

-----------------------------------------------------------------------------
(* Buffers *)

\* buff[i] of a Uint8Array or DataView.getUint8(i), JS index i
At(buff, i) == buff[i + 1]

\* x & 0xff of a JS number (two's complement for a negative x)
And255(x) == x % 256

\* a value stored into a Uint8Array element
ToUint8(x) == x % 256

\* utils.appendBuffer
appendBuffer(buffer1, buffer2) == buffer1 \o buffer2

\* the bytes of buff from JS offset i to the end: new DataView(buffer, i)
From(buff, i) == SubSeq(buff, i + 1, Len(buff))

\* DataView.getUint16(i, true) and getUint32(i, true), little-endian, of a
\* value read as a number (the model's numbers are below 2^31)
getUint16(buff, i) == At(buff, i) + 256 * At(buff, i + 1)
getUint32(buff, i) == getUint16(buff, i) + 65536 * getUint16(buff, i + 2)

\* getUint16(i, true) and getUint32(i, true) of a value read as a bit mask:
\* the mask is kept as its little-endian bytes
getMask16(buff, i) == SubSeq(buff, i + 1, i + 2)
getMask32(buff, i) == SubSeq(buff, i + 1, i + 4)

\* (mask & (1 << i)) === (1 << i) for a mask kept as its bytes, i in 0..31
HasBit(mask, i) ==
    /\ (i \div 8) + 1 <= Len(mask)
    /\ (mask[(i \div 8) + 1] \div (2 ^ (i % 8))) % 2 = 1

\* (x >> (8 * k)) & 0xff of an int32 x
ByteOf(x, k) == (x \div (256 ^ k)) % 256

-----------------------------------------------------------------------------
(* Framer *)

\* #decRollingCounter: the value it returns and the counter it leaves
DecRollingCounterPre(rc) == [value |-> rc - 1, counter |-> rc - 1]
DecRollingCounter(rc) == [value |-> rc, counter |-> rc - 1]

\* the loop of #calculateChecksum: checksum after its iterations i = from .. to - 1
\* (run as two halves, the first evaluated before the second is entered, which
\* keeps the evaluation shallow for long packets)
RECURSIVE ChecksumLoop(_, _, _, _)
ChecksumLoop(buff, from, to, checksum) ==
    IF from >= to THEN checksum
    ELSE IF to = from + 1 THEN And255(checksum + At(buff, from))
    ELSE LET mid == (from + to) \div 2
             half == ChecksumLoop(buff, from, mid, checksum)
         IN  IF half \in Int THEN ChecksumLoop(buff, mid, to, half) ELSE half

\* the value of checksum that #calculateChecksum tests against [0, 255];
\* a read past the end of buff is undefined, the sum NaN, and NaN & 0xff is 0
ChecksumNoCancel(buff) ==
    IF At(buff, 1) > Len(buff) THEN 0
    ELSE ChecksumLoop(buff, 0, At(buff, 1), 0)
ChecksumRaw(buff) ==
    IF At(buff, 1) > Len(buff) THEN 0
    ELSE ChecksumLoop(buff, 0, At(buff, 1), (-1) * At(buff, 3))

\* whether #calculateChecksum takes its "Checksum failed!" branch
ChecksumFailed(buff) == ChecksumRaw(buff) < 0 \/ ChecksumRaw(buff) > 255

\* #calculateChecksum
calculateChecksum(buff) == IF ChecksumFailed(buff) THEN 0 ELSE ChecksumRaw(buff)

\* the packet of sendCommand before its checksum byte is set
Unsummed(subCommand, seq) ==
    LET command == HEADER \o subCommand
    IN  [command EXCEPT ![2] = ToUint8(Len(command)), ![3] = ToUint8(seq)]

\* the packet sendCommand builds for subCommand with sequence id seq
BuildPacket(subCommand, seq) ==
    LET command == Unsummed(subCommand, seq)
    IN  [command EXCEPT ![4] = ToUint8(calculateChecksum(command))]

-----------------------------------------------------------------------------
(* The device as a record, for the operators that compose *)

Cur ==
    [writeQueue |-> writeQueue, rollingCounter |-> rollingCounter,
     timers |-> timers, promise |-> promise, response |-> response,
     remainingResponseLength |-> remainingResponseLength,
     opened |-> opened, collecting |-> collecting, intervals |-> intervals,
     deviceWriteInterval |-> deviceWriteInterval, sensors |-> sensors,
     measurementPeriod |-> measurementPeriod,
     defaultSensorsMask |-> defaultSensorsMask,
     availableSensors |-> availableSensors, adapter |-> adapter,
     link |-> link, setups |-> setups, inbound |-> inbound, writing |-> writing,
     queued |-> queued, wrote |-> wrote, whole |-> whole, last |-> last]

Set(d) ==
    /\ writeQueue' = d.writeQueue
    /\ rollingCounter' = d.rollingCounter
    /\ timers' = d.timers
    /\ promise' = d.promise
    /\ response' = d.response
    /\ remainingResponseLength' = d.remainingResponseLength
    /\ opened' = d.opened
    /\ collecting' = d.collecting
    /\ intervals' = d.intervals
    /\ deviceWriteInterval' = d.deviceWriteInterval
    /\ sensors' = d.sensors
    /\ measurementPeriod' = d.measurementPeriod
    /\ defaultSensorsMask' = d.defaultSensorsMask
    /\ availableSensors' = d.availableSensors
    /\ adapter' = d.adapter
    /\ link' = d.link
    /\ setups' = d.setups
    /\ inbound' = d.inbound
    /\ writing' = d.writing
    /\ queued' = d.queued
    /\ wrote' = d.wrote
    /\ whole' = d.whole
    /\ last' = d.last

\* history record of one callback:
\*   op       the callback
\*   args     the arguments of an application call
\*   id       the promise id it made (send), wrote (tick), timed out (timeout)
\*            or resolved (notify); 0 for none
\*   chunk    the notification handled
\*   buf      the accumulated response at the end of the handler's reassembly step
\*   dispatch "none", "measurement" or "command"
\*   threw    whether the callback ended by an exception
\*   failed   whether the transport rejected the write of this tick
\*   passed   the chunks passed to device.writeCommand, in order: the command,
\*            the offset of the chunk in its packet, and the chunk
\*   emitted  the events emitted by the device and its sensors, in order
\*   excluded the indices of the sensors the state-changed handler disabled
Event(op) ==
    [op |-> op, args |-> <<>>, id |-> 0, chunk |-> <<>>, buf |-> <<>>,
     dispatch |-> "none", threw |-> FALSE, failed |-> FALSE, passed |-> <<>>,
     emitted |-> <<>>, excluded |-> {}]

Begin(d, op) ==
    [d EXCEPT !.last = Event(op),
              !.whole = IF op = "notify" THEN @ ELSE <<>>]

-----------------------------------------------------------------------------
(* Command queue *)

\* #queueWriteCommand, called by sendCommand: the entry pushed, the promise
\* made (cont names the code that awaits it) and the 5 s timer set
queueWriteCommand(d, command, cont) ==
    LET id == Len(d.promise) + 1
    IN  [d EXCEPT
            !.writeQueue = Append(@, [id |-> id, command |-> At(command, 4),
                                      rollingCounter |-> At(command, 2),
                                      buffer |-> command, written |-> FALSE]),
            !.promise = Append(@, [state |-> "pending", cont |-> cont, value |-> <<>>]),
            !.timers = Append(@, [id |-> id, command |-> At(command, 4),
                                  rollingCounter |-> At(command, 2)]),
            !.queued = Append(@, command),
            !.last.id = IF d.last.op = "send" THEN id ELSE @]

\* sendCommand
sendCommand(d, subCommand, cont) ==
    LET dec == DecRollingCounter(d.rollingCounter)
    IN  queueWriteCommand([d EXCEPT !.rollingCounter = dec.counter],
                          BuildPacket(subCommand, dec.value), cont)

\* the adapters' maxPacketLength
maxPacketLength(kind) == IF kind = "usb" THEN 63 ELSE 20

\* #writeToDevice: the chunk of buffer at offset, of at most max bytes
ChunkAt(buffer, offset, max) ==
    SubSeq(buffer, offset + 1,
           IF Len(buffer) - offset > max THEN offset + max ELSE Len(buffer))

\* #writeToDevice: the chunks of buffer from offset on, as passed to writeCommand
RECURSIVE chunksFrom(_, _, _, _)
chunksFrom(id, buffer, offset, max) ==
    IF offset >= Len(buffer) THEN <<>>
    ELSE <<[id |-> id, at |-> offset, chunk |-> ChunkAt(buffer, offset, max)]>>
             \o chunksFrom(id, buffer, offset + Len(ChunkAt(buffer, offset, max)), max)

\* the entry the write tick of #connect hands to #writeToDevice: JS index + 1, 0 for none
TickTargetAnyUnwritten(q) ==
    IF \E i \in DOMAIN q : ~q[i].written
    THEN CHOOSE i \in DOMAIN q : ~q[i].written /\ \A j \in 1..(i - 1) : q[j].written
    ELSE 0
TickTarget(q) == IF Len(q) > 0 /\ ~q[1].written THEN 1 ELSE 0

\* one pass of the loop of #writeToDevice for the call w, up to its await: the
\* chunk at w.offset is passed to device.writeCommand; the entry counts as
\* written to the device once its last chunk is passed
writeChunk(d, w) ==
    LET chunk == ChunkAt(w.buffer, w.offset, maxPacketLength(d.adapter))
        to == w.offset + Len(chunk)
    IN  [d EXCEPT !.last.passed = Append(@, [id |-> w.id, at |-> w.offset, chunk |-> chunk]),
                  !.wrote = IF to >= Len(w.buffer) THEN @ \cup {w.id} ELSE @,
                  !.writing = Append(SelectSeq(@, LAMBDA v : v.id # w.id),
                                     [w EXCEPT !.offset = to])]

\* the callback of setInterval in #connect, up to the await of #writeToDevice
writeBegin(d) ==
    LET i == TickTarget(d.writeQueue)
    IN  IF i = 0 THEN d
        ELSE writeChunk([d EXCEPT !.writeQueue[i].written = TRUE,
                                  !.last.id = d.writeQueue[i].id],
                        [id |-> d.writeQueue[i].id, buffer |-> d.writeQueue[i].buffer,
                         offset |-> 0])

\* device.writeCommand of the call w settles, resolved or rejected (the error
\* is caught and logged): the loop passes the next chunk, or ends
writeSettled(d, w) ==
    IF w.offset >= Len(w.buffer)
    THEN [d EXCEPT !.writing = SelectSeq(@, LAMBDA v : v.id # w.id), !.last.id = w.id]
    ELSE writeChunk([d EXCEPT !.last.id = w.id], w)

\* the callback of setInterval in #connect when the transport settles every
\* write of #writeToDevice before another callback runs
writeTick(d) ==
    LET i == TickTarget(d.writeQueue)
    IN  IF i = 0 THEN d
        ELSE [d EXCEPT !.writeQueue[i].written = TRUE,
                       !.wrote = @ \cup {d.writeQueue[i].id},
                       !.last.id = d.writeQueue[i].id,
                       !.last.passed = chunksFrom(d.writeQueue[i].id, d.writeQueue[i].buffer,
                                                  0, maxPacketLength(d.adapter))]

\* the same callback when the transport rejects the write: #writeToDevice
\* catches the error and logs it
writeTickFailed(d) ==
    LET i == TickTarget(d.writeQueue)
    IN  IF i = 0 THEN d
        ELSE [d EXCEPT !.writeQueue[i].written = TRUE,
                       !.last.id = d.writeQueue[i].id,
                       !.last.failed = TRUE]

\* the predicate of the filter in the timeout callback: whether q is kept
TimeoutKeepsAll(q, t) == q.command = t.command
TimeoutKeeps(q, t) == q.command = t.command /\ q.rollingCounter # t.rollingCounter

\* reject(error) or resolve(value) of a promise: no effect once it is settled
settle(d, id, state, value) ==
    IF d.promise[id].state = "pending"
    THEN [d EXCEPT !.promise[id].state = state, !.promise[id].value = value]
    ELSE d

\* the callback of setTimeout in #queueWriteCommand, for timer t, without the
\* code that runs when the promise it rejects is awaited in a try block
timeoutReject(d, t) ==
    LET d1 == [d EXCEPT !.writeQueue = SelectSeq(@, LAMBDA q : TimeoutKeeps(q, t)),
                        !.last.id = t.id]
    IN  settle(d1, t.id, "rejected", <<>>)

-----------------------------------------------------------------------------
(* Sensors and the measurement decoder *)

\* Device.keepValues, set by the constructor and never changed
keepValues == TRUE

\* DataView.getFloat32(i, true) and getInt32(i, true): a float32 is kept as its
\* IEEE-754 bit pattern (read as an int32), an int32 as its value
Int32Of(buff, i) ==
    getUint16(buff, i) + 65536 * At(buff, i + 2)
        + 16777216 * (IF At(buff, i + 3) >= 128 THEN At(buff, i + 3) - 256
                      ELSE At(buff, i + 3))
getFloat32(buff, i) == [kind |-> "f32", bits |-> Int32Of(buff, i)]
getInt32(buff, i) == [kind |-> "i32", bits |-> Int32Of(buff, i)]

\* getSensor: the index in d.sensors of the first sensor with that number, 0 for undefined
getSensor(ss, number) ==
    IF \E k \in DOMAIN ss : ss[k].number = number
    THEN CHOOSE k \in DOMAIN ss :
             ss[k].number = number /\ \A j \in 1..(k - 1) : ss[j].number # number
    ELSE 0

\* #getSensorsWithMask: the indices in ss of the sensors selected, bits i..31
RECURSIVE getSensorsWithMaskDescending(_, _, _)
getSensorsWithMaskDescending(ss, channelMask, i) ==
    IF i >= 32 THEN <<>>
    ELSE LET sel == IF HasBit(channelMask, i) /\ getSensor(ss, i) # 0
                    THEN <<getSensor(ss, i)>> ELSE <<>>
         IN  getSensorsWithMaskDescending(ss, channelMask, i + 1) \o sel
RECURSIVE getSensorsWithMask(_, _, _)
getSensorsWithMask(ss, channelMask, i) ==
    IF i >= 32 THEN <<>>
    ELSE LET sel == IF HasBit(channelMask, i) /\ getSensor(ss, i) # 0
                    THEN <<getSensor(ss, i)>> ELSE <<>>
         IN  sel \o getSensorsWithMask(ss, channelMask, i + 1)

\* Sensor.setValue on the sensor at index k
setValue(ss, k, value, keep) ==
    [ss EXCEPT ![k].value = <<value>>,
               ![k].values = IF keep THEN Append(@, value) ELSE @]

\* the value loop of #processMeasurements from its n-th setValue call on: sel
\* holds the indices of the sensors (0 for undefined); it ends by an exception
\* when the sensor is undefined or the value lies beyond the buffer
RECURSIVE measurementLoop(_, _, _, _, _, _, _)
measurementLoop(d, buff, sel, isFloat, total, index, n) ==
    IF n >= total THEN d
    ELSE LET k == sel[(n % Len(sel)) + 1]
         IN  IF k = 0 \/ index + 4 > Len(buff)
             THEN [d EXCEPT !.last.threw = TRUE]
             ELSE measurementLoop(
                      [d EXCEPT !.sensors = setValue(@, k,
                                    IF isFloat THEN getFloat32(buff, index)
                                    ELSE getInt32(buff, index), keepValues)],
                      buff, sel, isFloat, total, index + 4, n + 1)

\* #processMeasurements
processMeasurements(d, buff) ==
    IF Len(buff) < 5 THEN [d EXCEPT !.last.threw = TRUE]
    ELSE LET type == At(buff, 4)
         IN  CASE type = NORMAL_REAL32 ->
                    IF Len(buff) < 8 THEN [d EXCEPT !.last.threw = TRUE]
                    ELSE LET sel == getSensorsWithMask(d.sensors, getMask16(buff, 5), 0)
                         IN  measurementLoop(d, buff, sel, TRUE,
                                             At(buff, 7) * Len(sel), 9, 0)
               [] type = WIDE_REAL32 ->
                    IF Len(buff) < 10 THEN [d EXCEPT !.last.threw = TRUE]
                    ELSE LET sel == getSensorsWithMask(d.sensors, getMask32(buff, 5), 0)
                         IN  measurementLoop(d, buff, sel, TRUE,
                                             At(buff, 9) * Len(sel), 11, 0)
               [] type \in {APERIODIC_REAL32, SINGLE_CHANNEL_REAL32,
                            APERIODIC_INT32, SINGLE_CHANNEL_INT32} ->
                    IF Len(buff) < 8 THEN [d EXCEPT !.last.threw = TRUE]
                    ELSE measurementLoop(d, buff, <<getSensor(d.sensors, At(buff, 6))>>,
                                         type \in {APERIODIC_REAL32, SINGLE_CHANNEL_REAL32},
                                         At(buff, 7), 8, 0)
               [] OTHER -> d

-----------------------------------------------------------------------------
(* Reassembly and dispatch *)

\* the test of #handleResponse for a response that is not complete yet
NeedsMoreOffByOne(resLength, byteLength) == resLength > byteLength + 1
NeedsMore(resLength, byteLength) == resLength > byteLength

\* the entry #resolveWriteCommand finds: its index in q, 0 for undefined
FindAnyCommand(q, command, rc) ==
    IF \E i \in DOMAIN q : q[i].command = command
    THEN CHOOSE i \in DOMAIN q :
             q[i].command = command /\ \A j \in 1..(i - 1) : q[j].command # command
    ELSE 0
FindItem(q, command, rc) ==
    IF \E i \in DOMAIN q : q[i].command = command /\ q[i].rollingCounter = rc
    THEN CHOOSE i \in DOMAIN q :
             /\ q[i].command = command /\ q[i].rollingCounter = rc
             /\ \A j \in 1..(i - 1) :
                    ~(q[j].command = command /\ q[j].rollingCounter = rc)
    ELSE 0

\* #resolveWriteCommand without the continuation of the promise it resolves
resolveWriteCommand(d, command, rc, resPacket) ==
    LET i == FindItem(d.writeQueue, command, rc)
    IN  IF i = 0 THEN d
        ELSE LET item == d.writeQueue[i]
                 d1 == settle(d, item.id, "resolved", resPacket)
             IN  [d1 EXCEPT !.writeQueue = SelectSeq(@, LAMBDA q : q.id # item.id),
                            !.last.id = item.id]

\* #handleResponse without the continuation of the promise it resolves
handleResponse(d, notification) ==
    LET appending == d.remainingResponseLength > 0
        rem1 == IF appending THEN d.remainingResponseLength - Len(notification)
                ELSE d.remainingResponseLength
        res1 == IF appending THEN appendBuffer(d.response, notification)
                ELSE notification
        d1 == [d EXCEPT !.remainingResponseLength = rem1, !.response = res1,
                        !.last.chunk = notification, !.last.buf = res1]
    IN  IF appending /\ rem1 > 0 THEN d1
        ELSE IF Len(res1) < 2 THEN [d1 EXCEPT !.last.threw = TRUE]
        ELSE IF NeedsMore(At(res1, 1), Len(res1))
             THEN [d1 EXCEPT !.remainingResponseLength = At(res1, 1) - Len(res1)]
        ELSE IF At(res1, 0) = ResponseTypeMeasurement
             THEN processMeasurements([d1 EXCEPT !.last.dispatch = "measurement"], res1)
        ELSE IF Len(res1) < 6 THEN [d1 EXCEPT !.last.threw = TRUE]
        ELSE LET d2 == resolveWriteCommand([d1 EXCEPT !.last.dispatch = "command"],
                                           At(res1, 4), At(res1, 5), From(res1, 6))
             IN  [d2 EXCEPT !.remainingResponseLength = 0, !.response = <<>>]

-----------------------------------------------------------------------------
(* Sensor registry and collection control *)

\* Device.minMeasurementPeriod of the constructor, in microseconds (10 ms)
minMeasurementPeriod == 10000

\* the measurementPeriod of the constructor, in microseconds (10 ms)
InitMeasurementPeriod == 10000

\* who awaits a promise of sendCommand: k names the awaiting code, i is the
\* channel of a sensor-info query, a the autoStart flag of the open() call
Cont(k, i, a) == [k |-> k, i |-> i, a |-> a]

\* EventEmitter.emit, by the device or by one of its sensors
emit(d, event) == [d EXCEPT !.last.emitted = Append(@, event)]

\* 1 << number, an int32
ShiftLeft1(number) == IF number % 32 = 31 THEN -2147483647 - 1 ELSE 2 ^ (number % 32)

\* (mask & mutalExclusionMask) === mask for mask = 1 << number
ExcludesNone(mutalExclusionMask, number) == FALSE
Excludes(mutalExclusionMask, number) == HasBit(mutalExclusionMask, number % 32)

\* the body of sensors.forEach in the state-changed handler, from index k2 on,
\* for the enabled sensor at index k
RECURSIVE constraintScan(_, _, _)
constraintScan(d, k, k2) ==
    IF k2 > Len(d.sensors) THEN d
    ELSE LET s == d.sensors[k]
             s2 == d.sensors[k2]
             d1 == IF s.number # s2.number /\ s2.enabled
                   THEN IF Excludes(s.mutalExclusionMask, s2.number)
                        THEN [d EXCEPT !.sensors[k2].enabled = FALSE,
                                       !.last.excluded = @ \cup {k2}]
                        ELSE IF s2.typicalPeriod > d.measurementPeriod
                             THEN [d EXCEPT !.measurementPeriod = s2.typicalPeriod]
                             ELSE d
                   ELSE d
         IN  constraintScan(d1, k, k2 + 1)

\* setMeasurementPeriod: the sub-command it sends
periodCommand(measurementPeriodInMicroseconds) ==
    LET us == IF measurementPeriodInMicroseconds < minMeasurementPeriod
              THEN minMeasurementPeriod ELSE measurementPeriodInMicroseconds
        x == us
    IN  [SET_MEASUREMENT_PERIOD EXCEPT ![4] = ByteOf(x, 0), ![5] = ByteOf(x, 1),
                                       ![6] = ByteOf(x, 2), ![7] = ByteOf(x, 3)]

\* getEnabledChannelMask
RECURSIVE channelMaskFrom(_, _)
channelMaskFrom(ss, k) ==
    IF k > Len(ss) THEN 0
    ELSE (IF ss[k].enabled THEN ShiftLeft1(ss[k].number) ELSE 0) + channelMaskFrom(ss, k + 1)
getEnabledChannelMask(d) == channelMaskFrom(d.sensors, 1)

\* the sub-command startMeasurements sends after the period command
startCommand(channelMask) ==
    LET x == channelMask
    IN  [START_MEASUREMENTS EXCEPT ![4] = ByteOf(x, 0), ![5] = ByteOf(x, 1),
                                   ![6] = ByteOf(x, 2), ![7] = ByteOf(x, 3)]

\* startMeasurements up to its first await
startMeasurements(d) ==
    sendCommand(d, periodCommand(d.measurementPeriod), Cont("period", 0, FALSE))

\* stopMeasurements up to its await; then names the caller that awaits it
stopMeasurements(d, then) ==
    sendCommand(d, STOP_MEASUREMENTS, Cont(then, 0, FALSE))

\* #restartMeasurements up to its first await
restartMeasurementsAlways(d) == stopMeasurements(d, "stop-restart")
restartMeasurements(d) ==
    IF d.collecting THEN stopMeasurements(d, "stop-restart") ELSE d

\* the state-changed handler that #getSensorInfo registers for the sensor at index k
stateChangedKeepsPeriod(d, k) ==
    restartMeasurements(IF d.sensors[k].enabled THEN constraintScan(d, k, 1) ELSE d)
stateChanged(d, k) ==
    LET s == d.sensors[k]
        d1 == IF s.enabled
              THEN constraintScan([d EXCEPT !.measurementPeriod = s.typicalPeriod], k, 1)
              ELSE d
    IN  restartMeasurements(d1)

\* Sensor.setEnabled on the sensor at index k
setEnabledUnguarded(d, k, enabled) ==
    stateChanged(emit([d EXCEPT !.sensors[k].enabled = enabled], "state-changed"), k)
setEnabled(d, k, enabled) ==
    IF d.sensors[k].enabled # enabled
    THEN stateChanged(emit([d EXCEPT !.sensors[k].enabled = enabled],
                           "state-changed"), k)
    ELSE d

\* enableDefaultSensors, from channel i on (channel i is done before the loop goes on)
RECURSIVE enableDefaultSensors(_, _)
enableDefaultSensors(d, i) ==
    IF i >= 32 THEN d
    ELSE LET k == getSensor(d.sensors, i)
             d1 == IF HasBit(d.defaultSensorsMask, i) /\ k # 0
                   THEN setEnabled(d, k, TRUE) ELSE d
         IN  IF d1.sensors = d1.sensors THEN enableDefaultSensors(d1, i + 1) ELSE d

\* Sensor.clear on every enabled sensor
clearEnabled(ss) ==
    [k \in DOMAIN ss |-> IF ss[k].enabled
                         THEN [ss[k] EXCEPT !.value = <<>>, !.values = <<>>]
                         ELSE ss[k]]

\* start(period): period is in microseconds, 0 for none
start(d, period) ==
    LET d1 == IF \E k \in DOMAIN d.sensors : d.sensors[k].enabled THEN d
              ELSE enableDefaultSensors(d, 0)
        d2 == [d1 EXCEPT !.sensors = clearEnabled(@),
                         !.measurementPeriod = IF period # 0 THEN period ELSE @]
    IN  startMeasurements(d2)

-----------------------------------------------------------------------------
(* Device orchestrator *)

\* #onOpened and #onClosed
onOpened(d) == emit([d EXCEPT !.opened = TRUE], "device-opened")
onClosed(d) == emit([d EXCEPT !.opened = FALSE], "device-closed")

\* disconnect(): WebUsbDeviceAdapter.close calls onClosed itself, the Bluetooth
\* adapter's disconnect raises gattserverdisconnected later
disconnect(d) ==
    LET d1 == [d EXCEPT !.intervals = @ \ {d.deviceWriteInterval}, !.inbound = <<>>]
    IN  IF d.adapter = "usb" THEN onClosed([d1 EXCEPT !.link = "down"])
        ELSE [d1 EXCEPT !.link = IF @ = "up" THEN "lost" ELSE @]

\* the callback of setup().then in #connect, then #init, for an open(autoStart)
connectInitOpened(d, autoStart) ==
    LET h == d.deviceWriteInterval + 1
        d1 == [d EXCEPT !.writeQueue = <<>>, !.intervals = @ \cup {h},
                        !.deviceWriteInterval = h, !.collecting = FALSE,
                        !.rollingCounter = InitRollingCounter]
    IN  sendCommand(emit([d1 EXCEPT !.opened = TRUE], "device-opened"), INIT,
                    Cont("init", 0, autoStart))
connectInit(d, autoStart) ==
    LET h == d.deviceWriteInterval + 1
        d1 == [d EXCEPT !.writeQueue = <<>>, !.intervals = @ \cup {h},
                        !.deviceWriteInterval = h, !.collecting = FALSE,
                        !.rollingCounter = InitRollingCounter]
    IN  sendCommand(d1, INIT, Cont("init", 0, autoStart))

\* the sensor #getSensorInfo builds from the response packet
newSensor(resPacket) ==
    [number |-> At(resPacket, 0), id |-> getMask32(resPacket, 2), enabled |-> FALSE,
     typicalPeriod |-> getUint32(resPacket, 136),
     mutalExclusionMask |-> getMask32(resPacket, 144),
     value |-> <<>>, values |-> <<>>]

\* the loop of #getAvailableSensors from channel i on, up to its next await,
\* then #getDeviceInfo up to its await
FirstAvailable(mask, i) ==
    IF \E j \in i..30 : HasBit(mask, j)
    THEN CHOOSE j \in i..30 : HasBit(mask, j) /\ \A n \in i..(j - 1) : ~HasBit(mask, n)
    ELSE 31
enumerateSensors(d, i, autoStart) ==
    LET j == FirstAvailable(d.availableSensors, i)
    IN  IF j < 31
        THEN sendCommand(d, [GET_SENSOR_INFO EXCEPT ![2] = j], Cont("sensorInfo", j, autoStart))
        ELSE sendCommand(d, GET_INFO, Cont("deviceInfo", 0, autoStart))

\* the assignments of stopMeasurements and startMeasurements after their response
startAckAny(d, resPacket) ==
    emit([d EXCEPT !.collecting = TRUE], "measurements-started")
stopAck(d, resPacket) ==
    IF At(resPacket, 0) = 0
    THEN emit([d EXCEPT !.collecting = FALSE], "measurements-stopped") ELSE d
startAck(d, resPacket) ==
    IF At(resPacket, 0) = 0
    THEN emit([d EXCEPT !.collecting = TRUE], "measurements-started") ELSE d

\* the code that runs when the promise awaited by c is rejected: the catch
\* block of #restartMeasurements logs the error of stopMeasurements and the
\* function goes on to its second test (wasCollecting is true, the STOP was
\* sent); every other rejection ends the function that awaits it
caught(d, c) ==
    IF c.k = "stop-restart" /\ ~d.collecting THEN startMeasurements(d) ELSE d

\* the callback of setTimeout in #queueWriteCommand, for timer t
timeoutCallback(d, t) ==
    IF d.promise[t.id].state = "pending"
    THEN caught(timeoutReject(d, t), d.promise[t.id].cont)
    ELSE timeoutReject(d, t)

\* the code that runs when the promise awaited by c resolves with the response
\* buf (the packet is buf from offset 6), up to its next await; a read beyond
\* the response throws and ends the awaiting function
continue(d, c, buf) ==
    LET p == From(buf, 6)
    IN  CASE c.k = "init" -> sendCommand(d, GET_STATUS, Cont("status", 0, c.a))
          [] c.k = "status" ->
                IF Len(p) < 12 THEN d
                ELSE sendCommand(d, GET_DEFAULT_SENSORS_MASK, Cont("defaultMask", 0, c.a))
          [] c.k = "defaultMask" ->
                IF Len(p) < 4 THEN d
                ELSE sendCommand([d EXCEPT !.defaultSensorsMask = getMask32(p, 0)],
                                 GET_SENSOR_IDS, Cont("sensorIds", 0, c.a))
          [] c.k = "sensorIds" ->
                IF Len(p) < 4 THEN d
                ELSE enumerateSensors([d EXCEPT !.availableSensors = getMask32(p, 0)], 0, c.a)
          [] c.k = "sensorInfo" ->
                IF Len(p) < 6 THEN d
                ELSE IF getMask32(p, 2) = <<0, 0, 0, 0>> THEN enumerateSensors(d, c.i + 1, c.a)
                ELSE IF Len(p) < 148 THEN d
                ELSE enumerateSensors([d EXCEPT !.sensors = Append(@, newSensor(p))],
                                      c.i + 1, c.a)
          [] c.k = "deviceInfo" ->
                IF Len(buf) < 70 THEN d
                ELSE IF c.a THEN start(onOpened(d), 0) ELSE onOpened(d)
          [] c.k = "stop" -> IF Len(p) < 1 THEN d ELSE stopAck(d, p)
          [] c.k = "stop-close" ->
                IF Len(p) < 1 THEN d
                ELSE sendCommand(stopAck(d, p), DISCONNECT, Cont("disconnect", 0, FALSE))
          [] c.k = "stop-restart" ->
                LET d1 == IF Len(p) < 1 THEN d ELSE stopAck(d, p)
                IN  IF ~d1.collecting THEN startMeasurements(d1) ELSE d1
          [] c.k = "period" ->
                sendCommand(d, startCommand(getEnabledChannelMask(d)), Cont("start", 0, FALSE))
          [] c.k = "start" -> IF Len(p) < 1 THEN d ELSE startAck(d, p)
          [] c.k = "disconnect" -> disconnect(d)
          [] OTHER -> d

\* the transport calls onResponse(notification): #handleResponse, then the
\* continuation of the promise it resolved
onResponse(d, notification) ==
    LET d1 == handleResponse(d, notification)
    IN  IF d1.last.id = 0 \/ d.promise[d1.last.id].state # "pending" THEN d1
        ELSE continue(d1, d.promise[d1.last.id].cont, d1.last.buf)

-----------------------------------------------------------------------------
(* The environment: the application's calls and the device's responses *)

\* the sub-commands the application passes to sendCommand itself
UserCommands == {GET_STATUS, STOP_MEASUREMENTS}

\* the periods the application passes to start(), in microseconds; 0 for none
StartPeriods == {0}

\* a response of the device to the command (command, rc) with the packet resPacket
CommandResponse(command, rc, resPacket) ==
    LET n == 6 + Len(resPacket)
    IN  <<152, n % 256, 0, 0, command, rc>> \o resPacket

Zeros(n) == [j \in 1..n |-> 0]

\* 4 bytes, little-endian
Uint32Bytes(x) == <<ByteOf(x, 0), ByteOf(x, 1), ByteOf(x, 2), ByteOf(x, 3)>>

\* the packet of a sensor-info response
SensorInfoPacket(number, id, typicalPeriod, mutalExclusionMask) ==
    <<number, 0>> \o Uint32Bytes(id) \o Zeros(130) \o Uint32Bytes(typicalPeriod)
        \o Zeros(4) \o mutalExclusionMask

\* the sensors of the device by channel: their typical period in microseconds
\* and their exclusion mask; channels 0 and 1 exclude each other, and channel
\* 17 excludes channel 1, which does not exclude it
DeviceChannels == {0, 1, 17, 31}
DeviceAvailableMask == <<3, 0, 2, 128>>
DeviceDefaultMask == <<1, 0, 0, 0>>
DeviceTypicalPeriod(i) ==
    CASE i = 0 -> 100000
      [] i = 1 -> 50000
      [] OTHER -> 200000
DeviceExclusionMask(i) ==
    CASE i = 0 -> <<2, 0, 0, 0>>
      [] i = 1 -> <<1, 0, 0, 0>>
      [] i = 17 -> <<2, 0, 0, 0>>
      [] OTHER -> <<0, 0, 0, 0>>

\* the packets with which the device may answer the queued packet pkt; the
\* sensor id of a channel without a sensor is 0
ResponsePackets(pkt) ==
    LET command == At(pkt, 4)
    IN  CASE command = At(GET_STATUS, 0) -> {Zeros(12)}
          [] command = At(GET_DEFAULT_SENSORS_MASK, 0) -> {DeviceDefaultMask}
          [] command = At(GET_SENSOR_IDS, 0) -> {DeviceAvailableMask}
          [] command = At(GET_SENSOR_INFO, 0) ->
                {SensorInfoPacket(At(pkt, 5),
                                  IF At(pkt, 5) \in DeviceChannels THEN At(pkt, 5) + 1
                                  ELSE 0,
                                  DeviceTypicalPeriod(At(pkt, 5)),
                                  DeviceExclusionMask(At(pkt, 5)))}
          [] command = At(GET_INFO, 0) -> {Zeros(64)}
          [] command \in {At(START_MEASUREMENTS, 0), At(STOP_MEASUREMENTS, 0)} ->
                {<<0>>, <<1>>}
          [] OTHER -> {<<0>>}

\* the responses the device may send to the commands it was written
DeviceResponses ==
    UNION {{CommandResponse(At(queued[id], 4), At(queued[id], 2), rp) :
                rp \in ResponsePackets(queued[id])} : id \in wrote}

\* the responses of a device that answers each command once, while it is pending
AnswersDue ==
    UNION {{CommandResponse(At(queued[id], 4), At(queued[id], 2), rp) :
                rp \in ResponsePackets(queued[id])} :
           id \in {i \in wrote : promise[i].state = "pending"}}

\* the responses of a device that answers a pending command with an empty packet
ShortAnswers ==
    {CommandResponse(At(queued[id], 4), At(queued[id], 2), <<>>) :
        id \in {i \in wrote : promise[i].state = "pending"}}

\* the measurements the device may send
MeasurementNotifications == {<<ResponseTypeMeasurement, 5, 0, 0, 14>>}

\* the byte of a channel mask that holds the channels 8 * b .. 8 * b + 7
RECURSIVE MaskByteFrom(_, _, _)
MaskByteFrom(channels, b, i) ==
    IF i >= 8 THEN 0
    ELSE (IF 8 * b + i \in channels THEN 1 ELSE 0) + 2 * MaskByteFrom(channels, b, i + 1)
MaskBytes(channels, n) == [b \in 1..n |-> MaskByteFrom(channels, b - 1, 0)]

\* the values of a measurement: the little-endian value p + 1 at position p
RECURSIVE MeasurementValues(_, _)
MeasurementValues(p, total) ==
    IF p >= total THEN <<>>
    ELSE Uint32Bytes(p + 1) \o MeasurementValues(p + 1, total)

\* a measurement of the given type for the channels of the mask with n samples
MeasurementPacket(type, channels, n) ==
    LET body == MaskBytes(channels, IF type = WIDE_REAL32 THEN 4 ELSE 2) \o <<n, 0>>
                    \o MeasurementValues(0, n * Cardinality(channels))
    IN  <<ResponseTypeMeasurement, 5 + Len(body), 0, 0, type>> \o body

\* the measurements a collecting device may send for its sensors
MaxSamples == 2
MeasurementPackets ==
    {MeasurementPacket(NORMAL_REAL32, channels, n) :
        channels \in SUBSET {c \in DeviceChannels : c < 16}, n \in 0..MaxSamples}
    \cup {MeasurementPacket(WIDE_REAL32, channels \cup {17}, n) :
        channels \in SUBSET {c \in DeviceChannels : c < 16}, n \in 0..MaxSamples}

\* the sizes of the next notification when n bytes of a response are left
ChunkSizes(n) ==
    IF n <= MaxFineChunked THEN 1..n
    ELSE {IF n < maxPacketLength(adapter) THEN n ELSE maxPacketLength(adapter)}

-----------------------------------------------------------------------------
(* Actions *)

\* the state after new Device(device) for an adapter of the given kind
Fresh(kind, rc) ==
    /\ writeQueue = <<>>
    /\ rollingCounter = rc
    /\ timers = <<>>
    /\ promise = <<>>
    /\ response = <<>>
    /\ remainingResponseLength = 0
    /\ opened = FALSE
    /\ collecting = FALSE
    /\ intervals = {}
    /\ deviceWriteInterval = 0
    /\ sensors = <<>>
    /\ measurementPeriod = InitMeasurementPeriod
    /\ defaultSensorsMask = <<0, 0, 0, 0>>
    /\ availableSensors = <<0, 0, 0, 0>>
    /\ adapter = kind
    /\ link = "down"
    /\ setups = <<>>
    /\ inbound = <<>>
    /\ writing = <<>>
    /\ queued = <<>>
    /\ wrote = {}
    /\ whole = <<>>
    /\ last = Event("init")

Constructed(kind) == Fresh(kind, 0)

Init == \E kind \in {"usb", "ble"} : Constructed(kind)

\* a callback that ends in the device state d
Step(d) == Set(d)

UserSendsMade == Cardinality({id \in DOMAIN promise : promise[id].cont.k = "user"})

\* the application calls sendCommand(sub)
UserSend(sub) == Step(sendCommand(Begin(Cur, "send"), sub, Cont("user", 0, FALSE)))

\* the application calls open(autoStart): it throws when opened, otherwise it
\* awaits device.setup(); at most n calls get that far
OpenWithin(n, autoStart) ==
    LET d == [Begin(Cur, "open") EXCEPT !.last.args = <<autoStart>>]
    IN  IF opened THEN Step([d EXCEPT !.last.threw = TRUE])
        ELSE /\ deviceWriteInterval + Len(setups) < n
             /\ Step([d EXCEPT !.setups = Append(@, autoStart)])
Open(autoStart) == OpenWithin(MaxOpens, autoStart)

\* device.setup() of the i-th waiting open() succeeds
SetupDone(i) ==
    /\ i \in DOMAIN setups
    /\ LET d == [Begin(Cur, "setup") EXCEPT
                    !.setups = SubSeq(@, 1, i - 1) \o SubSeq(@, i + 1, Len(@)),
                    !.link = "up"]
       IN  Step(connectInit(d, setups[i]))

\* device.setup() of the i-th waiting open() fails, and so does open()
SetupFailed(i) ==
    /\ i \in DOMAIN setups
    /\ Step([Begin(Cur, "setup-failed") EXCEPT
                !.setups = SubSeq(@, 1, i - 1) \o SubSeq(@, i + 1, Len(@))])

\* the application calls close()
Close ==
    /\ opened
    /\ Step(stopMeasurements(Begin(Cur, "close"), "stop-close"))

\* the application calls start(period)
Start(period) == Step(start(Begin(Cur, "start"), period))

\* the application calls stop()
Stop == Step(stopMeasurements(Begin(Cur, "stop"), "stop"))

\* the application calls setEnabled(enabled) on the sensor at index k
SetEnabled(k, enabled) ==
    /\ k \in DOMAIN sensors
    /\ Step(setEnabled([Begin(Cur, "setEnabled") EXCEPT !.last.args = <<k, enabled>>],
                       k, enabled))

\* the 10 ms interval h of #connect fires
WriteTick(h) ==
    /\ h \in intervals
    /\ Step(writeTick(Begin(Cur, "tick")))

\* the 10 ms interval h of #connect fires; the write of the first chunk is awaited
WriteBegin(h) ==
    /\ h \in intervals
    /\ Step(writeBegin(Begin(Cur, "tick")))

\* the transport settles the write awaited by the n-th #writeToDevice call
WriteSettled(n) ==
    /\ n \in DOMAIN writing
    /\ Step(writeSettled(Begin(Cur, "written"), writing[n]))

\* the interval h fires and the transport rejects the write
WriteFails(h) ==
    /\ h \in intervals
    /\ TickTarget(writeQueue) # 0
    /\ Step(writeTickFailed(Begin(Cur, "tick")))

\* the oldest 5 s timer fires
Timeout ==
    /\ timers # <<>>
    /\ Step(timeoutCallback([Begin(Cur, "timeout") EXCEPT !.timers = Tail(@)],
                            Head(timers)))

\* what a notification leaves behind: the device, and what the handler did
View(d) ==
    [writeQueue |-> d.writeQueue, rollingCounter |-> d.rollingCounter,
     timers |-> d.timers, promise |-> d.promise, response |-> d.response,
     remainingResponseLength |-> d.remainingResponseLength,
     opened |-> d.opened, collecting |-> d.collecting, sensors |-> d.sensors,
     measurementPeriod |-> d.measurementPeriod,
     defaultSensorsMask |-> d.defaultSensorsMask,
     availableSensors |-> d.availableSensors, queued |-> d.queued,
     dispatch |-> d.last.dispatch, resolved |-> d.last.id,
     emitted |-> d.last.emitted]

\* the device starts to send the response r
DeviceRespond(r) ==
    /\ link = "up"
    /\ inbound = <<>>
    /\ Step([Begin(Cur, "respond") EXCEPT !.inbound = r, !.whole = <<>>])

\* the same, recording what notifying r whole would leave behind
DeviceRespondTracked(r) ==
    /\ link = "up"
    /\ inbound = <<>>
    /\ Step([Begin(Cur, "respond") EXCEPT
                !.inbound = r,
                !.whole = <<View(onResponse(Begin(Cur, "notify"), r))>>])

\* the transport notifies the next k bytes of the response in delivery
Notify(k) ==
    /\ k \in 1..Len(inbound)
    /\ Step(onResponse([Begin(Cur, "notify") EXCEPT !.inbound = SubSeq(@, k + 1, Len(@))],
                       SubSeq(inbound, 1, k)))

\* the transport notifies the response in delivery, one packet at a time
NotifyPacket ==
    Notify(IF Len(inbound) < maxPacketLength(adapter) THEN Len(inbound)
           ELSE maxPacketLength(adapter))

\* the Bluetooth link is lost, or its disconnect event is delivered: onClosed
LinkClosed ==
    /\ adapter = "ble"
    /\ link \in {"up", "lost"}
    /\ Step(onClosed([Begin(Cur, "closed") EXCEPT !.link = "down", !.inbound = <<>>]))

\* the cap on the commands sent in a behaviour
SendsWithin(n) == Len(promise') <= n

\* The command queue of a Bluetooth device under the application's sends and
\* open(), the write ticks, the timeouts, the device's responses and link loss
NextWithin(n) ==
    \/ \E sub \in UserCommands : UserSendsMade < MaxUserSends /\ UserSend(sub)
          /\ SendsWithin(n)
    \/ Open(FALSE)
          /\ SendsWithin(n)
    \/ \E i \in DOMAIN setups : SetupDone(i)
          /\ SendsWithin(n)
    \/ \E i \in DOMAIN setups : SetupFailed(i)
          /\ SendsWithin(n)
    \/ \E h \in intervals : WriteTick(h)
          /\ SendsWithin(n)
    \/ Timeout
          /\ SendsWithin(n)
    \/ \E r \in DeviceResponses : DeviceRespond(r)
          /\ SendsWithin(n)
    \/ Notify(Len(inbound))
          /\ SendsWithin(n)
    \/ LinkClosed
          /\ SendsWithin(n)

Next == NextWithin(MaxSends)

Spec == Constructed("ble") /\ [][Next]_vars

\* The life cycle of a device that answers each command once: open, start,
\* stop and close on an open device, link loss and open again once no command
\* is pending, with every response notified at the adapter's packet length
MaxLifeOpens == 2
Quiet == setups = <<>> /\ \A id \in DOMAIN promise : promise[id].state # "pending"
LifeCalls == Cardinality({id \in DOMAIN promise : promise[id].cont.k \in {"stop", "period"}})
NextLife ==
    \/ \E a \in BOOLEAN : Quiet /\ OpenWithin(MaxLifeOpens, a)
          /\ SendsWithin(MaxLifeSends)
    \/ \E i \in DOMAIN setups : SetupDone(i)
          /\ SendsWithin(MaxLifeSends)
    \/ \E i \in DOMAIN setups : SetupFailed(i)
          /\ SendsWithin(MaxLifeSends)
    \/ Close
          /\ SendsWithin(MaxLifeSends)
    \/ \E period \in StartPeriods : opened /\ LifeCalls < MaxLifeCalls /\ Start(period)
          /\ SendsWithin(MaxLifeSends)
    \/ opened /\ LifeCalls < MaxLifeCalls /\ Stop
          /\ SendsWithin(MaxLifeSends)
    \/ \E h \in intervals : WriteTick(h)
          /\ SendsWithin(MaxLifeSends)
    \/ \E r \in AnswersDue : DeviceRespond(r)
          /\ SendsWithin(MaxLifeSends)
    \/ NotifyPacket
          /\ SendsWithin(MaxLifeSends)
    \/ LinkClosed
          /\ SendsWithin(MaxLifeSends)

SpecLife == Constructed("ble") /\ [][NextLife]_vars

\* The same with fewer commands and with the timers of the event loop: a timer
\* that was set fires
MaxFairSends == 2
NextFair == NextWithin(MaxFairSends)

FairSpec == Constructed("ble") /\ [][NextFair]_vars /\ WF_vars(Timeout)

\* A burst of sendCommand calls with one command code and no response
MaxBurst == 257
NextBurst ==
    \/ UserSend(STOP_MEASUREMENTS)
          /\ SendsWithin(MaxBurst)
    \/ Timeout
          /\ SendsWithin(MaxBurst)

SpecBurst == Constructed("ble") /\ [][NextBurst]_vars

\* The framer alone: one sendCommand call for each payload and sequence id
MaxPayload == 256
FrameCounters == {-300, -1, 0, 1, 128, InitRollingCounter}
FramePayloads ==
    {<<c>> \o [j \in 1..n |-> f] :
        c \in {At(GET_STATUS, 0), At(START_MEASUREMENTS, 0)},
        f \in {0, 1, 255}, n \in 0..(MaxPayload - 1)}
FrameInit == \E rc \in FrameCounters : Fresh("usb", rc)
NextFrame == promise = <<>> /\ \E sub \in FramePayloads : UserSend(sub)

SpecFrame == FrameInit /\ [][NextFrame]_vars

\* The reassembler: every response is notified in chunks of any sizes, and
\* nothing else happens while a response is in delivery
MaxReasmSends == 2
MaxBuffered == 18
NextReasm ==
    \/ inbound = <<>> /\ Open(FALSE)
          /\ SendsWithin(MaxReasmSends)
          /\ Len(response') <= MaxBuffered
    \/ inbound = <<>> /\ \E i \in DOMAIN setups : SetupDone(i)
          /\ SendsWithin(MaxReasmSends)
          /\ Len(response') <= MaxBuffered
    \/ inbound = <<>> /\ \E h \in intervals : WriteTick(h)
          /\ SendsWithin(MaxReasmSends)
          /\ Len(response') <= MaxBuffered
    \/ \E r \in DeviceResponses \cup MeasurementNotifications : DeviceRespondTracked(r)
          /\ SendsWithin(MaxReasmSends)
          /\ Len(response') <= MaxBuffered
    \/ \E k \in ChunkSizes(Len(inbound)) : Notify(k)
          /\ SendsWithin(MaxReasmSends)
          /\ Len(response') <= MaxBuffered

SpecReasm == Constructed("ble") /\ [][NextReasm]_vars

\* The decoder: a new Bluetooth device is opened and then streams measurements,
\* each notified at the adapter's packet length, until the histories of its
\* sensors hold MaxHistory values
MaxHistory == 2
RECURSIVE HistoryLength(_, _)
HistoryLength(ss, k) ==
    IF k > Len(ss) THEN 0 ELSE Len(ss[k].values) + HistoryLength(ss, k + 1)
NextDecode ==
    \/ last.op = "init" /\ Open(FALSE)
    \/ \E i \in DOMAIN setups : SetupDone(i)
    \/ \E h \in intervals : WriteTick(h)
    \/ \E r \in AnswersDue : DeviceRespond(r)
    \/ \E m \in MeasurementPackets :
          opened /\ HistoryLength(sensors, 1) < MaxHistory /\ DeviceRespond(m)
    \/ NotifyPacket

SpecDecode == Constructed("ble") /\ [][NextDecode]_vars

\* a single-channel or aperiodic measurement of the given type for channel
\* with n values
SingleChannelPacket(type, channel, n) ==
    LET body == <<0, channel, n>> \o MeasurementValues(0, n)
    IN  <<ResponseTypeMeasurement, 5 + Len(body), 0, 0, type>> \o body

\* the measurements of a device that also reports a channel it did not
\* enumerate: single-channel and aperiodic ones, and normal ones by mask
UnknownChannel == 2
SingleChannelPackets ==
    {SingleChannelPacket(type, channel, n) :
        type \in {SINGLE_CHANNEL_REAL32, SINGLE_CHANNEL_INT32,
                  APERIODIC_REAL32, APERIODIC_INT32},
        channel \in {0, UnknownChannel}, n \in 0..MaxSamples}
    \cup {MeasurementPacket(NORMAL_REAL32, channels, n) :
            channels \in {{UnknownChannel}, {0, UnknownChannel}}, n \in 0..MaxSamples}

\* The single-channel decoder: a new Bluetooth device is opened and then sends
\* such measurements until the histories of its sensors hold MaxHistory values
NextSingle ==
    \/ last.op = "init" /\ Open(FALSE)
    \/ \E i \in DOMAIN setups : SetupDone(i)
    \/ \E h \in intervals : WriteTick(h)
    \/ \E r \in AnswersDue : DeviceRespond(r)
    \/ \E m \in SingleChannelPackets :
          opened /\ HistoryLength(sensors, 1) < MaxHistory /\ DeviceRespond(m)
    \/ NotifyPacket

SpecSingle == Constructed("ble") /\ [][NextSingle]_vars

\* The sensor registry: a new Bluetooth device is opened, with or without
\* autoStart, and the application then enables and disables its sensors
MaxSensorSends == 13
NextSensors ==
    \/ \E a \in BOOLEAN : last.op = "init" /\ Open(a)
          /\ SendsWithin(MaxSensorSends)
    \/ \E i \in DOMAIN setups : SetupDone(i)
          /\ SendsWithin(MaxSensorSends)
    \/ \E k \in DOMAIN sensors, enabled \in BOOLEAN : opened /\ SetEnabled(k, enabled)
          /\ SendsWithin(MaxSensorSends)
    \/ \E h \in intervals : WriteTick(h)
          /\ SendsWithin(MaxSensorSends)
    \/ \E r \in AnswersDue : DeviceRespond(r)
          /\ SendsWithin(MaxSensorSends)
    \/ NotifyPacket
          /\ SendsWithin(MaxSensorSends)

SpecSensors == Constructed("ble") /\ [][NextSensors]_vars

\* The restart: a new Bluetooth device is opened with autoStart; once it
\* collects the timers of its commands fire, and the application enables and
\* disables its sensors when no timer of a settled command is left, in a run
\* before its STOP is queued or between the STOP's acknowledgement and the
\* START's; from the first restart on the device may answer with an empty packet
MaxRestartSends == 13
RestartBegun == \E id \in DOMAIN promise : promise[id].cont.k = "stop-restart"
NoStaleTimer == \A n \in DOMAIN timers : promise[timers[n].id].state = "pending"
Restarting ==
    \E id \in DOMAIN promise :
        promise[id].state = "pending" /\ promise[id].cont.k \in {"stop-restart", "period", "start"}
NextRestart ==
    \/ last.op = "init" /\ Open(TRUE)
          /\ SendsWithin(MaxRestartSends)
    \/ \E i \in DOMAIN setups : SetupDone(i)
          /\ SendsWithin(MaxRestartSends)
    \/ \E k \in DOMAIN sensors, enabled \in BOOLEAN :
          /\ collecting # Restarting
          /\ NoStaleTimer /\ SetEnabled(k, enabled)
          /\ SendsWithin(MaxRestartSends)
    \/ \E h \in intervals : WriteTick(h)
          /\ SendsWithin(MaxRestartSends)
    \/ (collecting \/ RestartBegun) /\ Timeout
          /\ SendsWithin(MaxRestartSends)
    \/ \E r \in AnswersDue : DeviceRespond(r)
          /\ SendsWithin(MaxRestartSends)
    \/ \E r \in ShortAnswers : RestartBegun /\ DeviceRespond(r)
          /\ SendsWithin(MaxRestartSends)
    \/ NotifyPacket
          /\ SendsWithin(MaxRestartSends)

SpecRestart == Constructed("ble") /\ [][NextRestart]_vars

\* The writes: a Bluetooth device is opened and the application sends commands
\* of its own; the transport settles each chunk's write when it pleases
MaxWriteSends == 3
NextWrite ==
    \/ last.op = "init" /\ Open(FALSE)
          /\ SendsWithin(MaxWriteSends)
    \/ \E i \in DOMAIN setups : SetupDone(i)
          /\ SendsWithin(MaxWriteSends)
    \/ \E sub \in UserCommands : UserSendsMade < MaxUserSends /\ UserSend(sub)
          /\ SendsWithin(MaxWriteSends)
    \/ \E h \in intervals : WriteBegin(h)
          /\ SendsWithin(MaxWriteSends)
    \/ \E n \in DOMAIN writing : WriteSettled(n)
          /\ SendsWithin(MaxWriteSends)
    \/ Timeout
          /\ SendsWithin(MaxWriteSends)
    \/ \E r \in AnswersDue : DeviceRespond(r)
          /\ SendsWithin(MaxWriteSends)
    \/ NotifyPacket
          /\ SendsWithin(MaxWriteSends)
SpecWrite == Constructed("ble") /\ [][NextWrite]_vars

\* One open(), with or without autoStart, of a new Bluetooth device: the setup
\* may fail, writes may fail, commands may time out, the device may answer
\* with an empty packet and the link may be lost
MaxOpenSends == 10
NextOpen ==
    \/ \E a \in BOOLEAN : last.op = "init" /\ Open(a)
          /\ SendsWithin(MaxOpenSends)
    \/ \E i \in DOMAIN setups : SetupDone(i)
          /\ SendsWithin(MaxOpenSends)
    \/ \E i \in DOMAIN setups : SetupFailed(i)
          /\ SendsWithin(MaxOpenSends)
    \/ \E h \in intervals : WriteTick(h)
          /\ SendsWithin(MaxOpenSends)
    \/ \E h \in intervals : WriteFails(h)
          /\ SendsWithin(MaxOpenSends)
    \/ Timeout
          /\ SendsWithin(MaxOpenSends)
    \/ \E r \in AnswersDue \cup ShortAnswers : DeviceRespond(r)
          /\ SendsWithin(MaxOpenSends)
    \/ NotifyPacket
          /\ SendsWithin(MaxOpenSends)
    \/ LinkClosed
          /\ SendsWithin(MaxOpenSends)

SpecOpen == Constructed("ble") /\ [][NextOpen]_vars

\* Open, close and open again: each open() is called when no command is
\* pending, close() on an open device, and the link may be lost at any time
MaxReopenSends == 16
NextReopen ==
    \/ Quiet /\ OpenWithin(MaxLifeOpens, FALSE)
          /\ SendsWithin(MaxReopenSends)
    \/ \E i \in DOMAIN setups : SetupDone(i)
          /\ SendsWithin(MaxReopenSends)
    \/ Quiet /\ Close
          /\ SendsWithin(MaxReopenSends)
    \/ \E h \in intervals : WriteTick(h)
          /\ SendsWithin(MaxReopenSends)
    \/ \E r \in AnswersDue : DeviceRespond(r)
          /\ SendsWithin(MaxReopenSends)
    \/ NotifyPacket
          /\ SendsWithin(MaxReopenSends)
    \/ LinkClosed
          /\ SendsWithin(MaxReopenSends)

SpecReopen == Constructed("ble") /\ [][NextReopen]_vars

\* Opening: the application calls open() at any time, an open in progress
\* included, on a device that answers each command once
MaxOpeningSends == 9
NextOpening ==
    \/ OpenWithin(MaxLifeOpens, FALSE)
          /\ SendsWithin(MaxOpeningSends)
    \/ \E i \in DOMAIN setups : SetupDone(i)
          /\ SendsWithin(MaxOpeningSends)
    \/ \E i \in DOMAIN setups : SetupFailed(i)
          /\ SendsWithin(MaxOpeningSends)
    \/ \E h \in intervals : WriteTick(h)
          /\ SendsWithin(MaxOpeningSends)
    \/ \E r \in AnswersDue : DeviceRespond(r)
          /\ SendsWithin(MaxOpeningSends)
    \/ NotifyPacket
          /\ SendsWithin(MaxOpeningSends)

SpecOpening == Constructed("ble") /\ [][NextOpening]_vars

-----------------------------------------------------------------------------
(* From here on the definitions state properties of the behaviours above:  *)
(* predicates on the states and steps of the model, not code of the device *)

(* Properties of the command queue *)

\* whether the entry of the command with promise id is in the write queue
InQueue(id) == \E i \in DOMAIN writeQueue : writeQueue[i].id = id

\* the commands handed to the transport that are neither resolved nor timed out
OnWire == {id \in wrote : promise[id].state = "pending"}

\* C1: in every reachable state at most one entry of the write queue has
\* written = true
AtMostOneWritten ==
    Cardinality({i \in DOMAIN writeQueue : writeQueue[i].written}) <= 1

\* C1, its case: a write tick found the head written and left the unwritten
\* entry behind it alone
AtMostOneWrittenWitness ==
    /\ last.op = "tick" /\ last.id = 0
    /\ Len(writeQueue) >= 2
    /\ writeQueue[1].written /\ ~writeQueue[2].written

\* C2: from the write of a command to its resolution or its own timeout no
\* other command is written, so at most one written command is unsettled
OneCommandOnWire == Cardinality(OnWire) <= 1

\* C3: the timeout of a command removes exactly the entry of that command
\* from the write queue and keeps every other entry
TimeoutRemovesOnlyItsEntry ==
    [][last'.op = "timeout" =>
          writeQueue' = SelectSeq(writeQueue, LAMBDA q : q.id # last'.id)]_vars

\* C4: while a command is pending its timeout is still due, and every pending
\* command is eventually resolved or else rejected by its timeout and out of
\* the write queue, also when the transport was disconnected meanwhile
EveryCommandSettles ==
    /\ [](\A id \in DOMAIN promise :
              promise[id].state = "pending" =>
                  \E i \in DOMAIN timers : timers[i].id = id)
    /\ [](\A id \in DOMAIN promise : promise[id].state = "rejected" => ~InQueue(id))
    /\ \A id \in 1..MaxFairSends :
          (id \in DOMAIN promise /\ promise[id].state = "pending")
              ~> (/\ id \in DOMAIN promise
                  /\ promise[id].state \in {"resolved", "rejected"}
                  /\ ~InQueue(id))

\* C4, its case: a command that was written and pending when the link went
\* down has been rejected by its timeout and is out of the queue
EveryCommandSettlesWitness ==
    /\ last.op = "timeout" /\ last.id # 0
    /\ last.id \in wrote
    /\ link = "down"
    /\ promise[last.id].state = "rejected"
    /\ ~InQueue(last.id)

\* C5: a complete non-measurement response that echoes (commandCode,
\* sequenceId) resolves the first queued command with that pair with the bytes
\* from offset 6 on and removes its entry; every other command is left as it was
ResponseResolvesItsCommand ==
    [][(last'.op = "notify" /\ last'.dispatch = "command") =>
          LET buf == last'.buf
              matches == {i \in DOMAIN writeQueue :
                              /\ writeQueue[i].command = At(buf, 4)
                              /\ writeQueue[i].rollingCounter = At(buf, 5)}
              before == Len(promise)
          IN  IF matches = {}
              THEN last'.id = 0 /\ writeQueue' = writeQueue /\ promise' = promise
              ELSE \E i \in matches :
                      LET id == writeQueue[i].id
                      IN  /\ \A j \in matches : i <= j
                          /\ last'.id = id
                          /\ promise[id].state = "pending"
                          /\ promise'[id].state = "resolved"
                          /\ promise'[id].value = From(buf, 6)
                          /\ \A j \in DOMAIN promise \ {id} : promise'[j] = promise[j]
                          /\ SelectSeq(writeQueue', LAMBDA q : q.id <= before)
                                = SelectSeq(writeQueue, LAMBDA q : q.id # id)]_vars

\* C5, its case: a response resolved its command while another command, sent
\* by the application, stayed pending in the queue
ResponseResolvesItsCommandWitness ==
    /\ last.op = "notify" /\ last.dispatch = "command" /\ last.id # 0
    /\ promise[last.id].state = "resolved"
    /\ \E i \in DOMAIN writeQueue :
          /\ writeQueue[i].id # last.id
          /\ promise[writeQueue[i].id].cont.k = "user"
          /\ promise[writeQueue[i].id].state = "pending"

\* C6: no two entries of the write queue have the same (command code,
\* sequence id) pair
NoDuplicatePairs ==
    Cardinality({<<writeQueue[i].command, writeQueue[i].rollingCounter>> :
                     i \in DOMAIN writeQueue}) = Len(writeQueue)

-----------------------------------------------------------------------------
(* Properties of the framer *)

\* the packet sendCommand built last
LastPacket == queued[Len(queued)]

\* C7, as stated: the sequence id at offset 2 of a packet is the value the
\* rolling counter holds after its decrement for this command
SequenceIdIsPostDecrement ==
    (last.op = "send" /\ queued # <<>>) => At(LastPacket, 2) = ToUint8(rollingCounter)

\* C7, amended: the sequence id at offset 2 of a packet is the low byte of the
\* value the rolling counter held before its decrement for this command
SequenceIdIsPreDecrement ==
    (last.op = "send" /\ queued # <<>>) =>
        At(LastPacket, 2) = ToUint8(rollingCounter + 1)

\* C7, its case: a command sent with the counter at 0 carries sequence id 0
\* and leaves the counter at -1
SequenceIdIsPreDecrementWitness ==
    /\ last.op = "send" /\ queued # <<>>
    /\ At(LastPacket, 2) = 0
    /\ rollingCounter = -1

\* the packet p as sendCommand holds it when it computes the checksum
BeforeChecksum(p) == [p EXCEPT ![4] = 0]

\* C8: for every packet built by sendCommand the checksum computed
\* again over the final bytes is the byte at offset 3, which is in 0..255, and
\* the "Checksum failed" branch is not taken
ChecksumReproducible ==
    \A i \in DOMAIN queued :
        /\ calculateChecksum(queued[i]) = At(queued[i], 3)
        /\ At(queued[i], 3) \in 0..255
        /\ ~ChecksumFailed(BeforeChecksum(queued[i]))
        /\ ~ChecksumFailed(queued[i])

\* C8 where the length fits its byte: the same for every packet of at most
\* 255 bytes; for a longer packet the byte at offset 3 is still in 0..255 and
\* the "Checksum failed" branch is still not taken
ChecksumReproducibleUpTo255 ==
    \A i \in DOMAIN queued :
        /\ Len(queued[i]) <= 255 => calculateChecksum(queued[i]) = At(queued[i], 3)
        /\ At(queued[i], 3) \in 0..255
        /\ ~ChecksumFailed(BeforeChecksum(queued[i]))
        /\ ~ChecksumFailed(queued[i])

\* a packet with a payload and a checksum other than 0 that the algorithm
\* reproduces
ChecksumReproducibleWitness ==
    /\ last.op = "send" /\ queued # <<>>
    /\ Len(LastPacket) \in 100..255
    /\ At(LastPacket, 3) # 0
    /\ calculateChecksum(LastPacket) = At(LastPacket, 3)

-----------------------------------------------------------------------------
(* Properties of the reassembler *)

\* C9: a response notified in chunks leaves the same dispatch and the same
\* device, sensor and queue state as the response notified whole
ChunkedAsWhole ==
    (last.op = "notify" /\ inbound = <<>> /\ whole # <<>>) => View(Cur) = whole[1]

\* a response is being reassembled: fewer bytes than byte 1 declares
Reassembling == Len(response) >= 2 /\ Len(response) < At(response, 1)

-----------------------------------------------------------------------------
(* Properties of the measurement decoder *)

\* the mask, the sample count and the offset of the first value of a normal
\* or wide measurement
MaskOf(buf) == IF At(buf, 4) = WIDE_REAL32 THEN getMask32(buf, 5) ELSE getMask16(buf, 5)
SamplesOf(buf) == IF At(buf, 4) = WIDE_REAL32 THEN At(buf, 9) ELSE At(buf, 7)
ValuesAt(buf) == IF At(buf, 4) = WIDE_REAL32 THEN 11 ELSE 9
Selected(buf) == {c \in 0..31 : HasBit(MaskOf(buf), c)}

\* a whole normal or wide measurement whose mask selects known channels only
MaskedMeasurement(buf) ==
    /\ Len(buf) >= 11
    /\ At(buf, 4) \in {NORMAL_REAL32, WIDE_REAL32}
    /\ \A c \in Selected(buf) : getSensor(sensors, c) # 0
    /\ Len(buf) >= ValuesAt(buf) + 4 * SamplesOf(buf) * Cardinality(Selected(buf))

\* the values the channel c is due: the one at position i * k + j of every
\* sample i, where c is the j-th of the k selected channels in ascending order
ValuesDue(buf, c) ==
    LET k == Cardinality(Selected(buf))
        j == Cardinality({c2 \in Selected(buf) : c2 < c})
    IN  [i \in 1..SamplesOf(buf) |-> getFloat32(buf, ValuesAt(buf) + 4 * ((i - 1) * k + j))]

\* C11: a normal or wide measurement with n samples whose mask selects the
\* known channels c1 < ... < ck appends to the history of channel cj the values
\* at the positions i * k + j, in sample order, and leaves every other sensor alone
MeasurementRouting ==
    [][(last'.op = "notify" /\ last'.dispatch = "measurement"
            /\ MaskedMeasurement(last'.buf))
        => /\ DOMAIN sensors' = DOMAIN sensors
           /\ \A s \in DOMAIN sensors :
                  sensors'[s].values =
                      sensors[s].values \o
                          (IF \E c \in Selected(last'.buf) : getSensor(sensors, c) = s
                           THEN ValuesDue(last'.buf,
                                    CHOOSE c \in Selected(last'.buf) :
                                        getSensor(sensors, c) = s)
                           ELSE <<>>)]_vars

\* mask 0b11 and 2 samples with the values 1, 2, 3, 4 were decoded: channel 0
\* has the history 1, 3 and channel 1 the history 2, 4
MeasurementRoutingWitness ==
    /\ last.op = "notify" /\ last.dispatch = "measurement" /\ ~last.threw
    /\ last.buf = MeasurementPacket(NORMAL_REAL32, {0, 1}, 2)
    /\ \E s0, s1 \in DOMAIN sensors :
          /\ sensors[s0].number = 0 /\ sensors[s1].number = 1
          /\ sensors[s0].values = <<[kind |-> "f32", bits |-> 1], [kind |-> "f32", bits |-> 3]>>
          /\ sensors[s1].values = <<[kind |-> "f32", bits |-> 2], [kind |-> "f32", bits |-> 4]>>
-----------------------------------------------------------------------------
(* Properties of the sensor registry *)

\* the call setEnabled(TRUE) on the disabled sensor at index a, while the
\* enabled sensor at index b sits on another channel whose bit is in a's
\* exclusion mask
EnablesOver(a, b) ==
    /\ last'.op = "setEnabled" /\ last'.args = <<a, TRUE>>
    /\ ~sensors[a].enabled
    /\ b \in DOMAIN sensors /\ sensors[b].enabled
    /\ sensors[b].number # sensors[a].number
    /\ HasBit(sensors[a].mutalExclusionMask, sensors[b].number)

\* the typical periods of the sensor at index a and of the enabled sensors on
\* other channels that a does not exclude
PeriodsKept(a) ==
    {sensors[a].typicalPeriod} \cup
        {sensors[c].typicalPeriod : c \in
            {c \in DOMAIN sensors :
                /\ sensors[c].enabled /\ sensors[c].number # sensors[a].number
                /\ ~HasBit(sensors[a].mutalExclusionMask, sensors[c].number)}}

SetEnabledIdempotent ==
    [][\A k \in DOMAIN sensors, x \in BOOLEAN :
          (last'.op = "setEnabled" /\ last'.args = <<k, x>> /\ sensors[k].enabled = x)
          => /\ last'.emitted = <<>> /\ last'.excluded = {}
             /\ measurementPeriod' = measurementPeriod
             /\ sensors' = sensors
             /\ promise' = promise /\ writeQueue' = writeQueue /\ queued' = queued
             /\ timers' = timers]_vars

\* setEnabled(TRUE) was called on an enabled sensor of a collecting device
\* whose period is not that sensor's typical period
SetEnabledIdempotentWitness ==
    /\ last.op = "setEnabled" /\ last.emitted = <<>>
    /\ collecting
    /\ \E k \in DOMAIN sensors :
          /\ last.args = <<k, TRUE>> /\ sensors[k].enabled
          /\ measurementPeriod # sensors[k].typicalPeriod
-----------------------------------------------------------------------------
(* Properties of collection control *)

\* this step resolves the pending command of a startMeasurements or
\* stopMeasurements call, with a response whose first byte is zero or not
Acked(kinds, zero) ==
    /\ last'.op = "notify" /\ last'.id # 0
    /\ promise[last'.id].state = "pending"
    /\ promise[last'.id].cont.k \in kinds
    /\ promise'[last'.id].value # <<>>
    /\ (At(promise'[last'.id].value, 0) = 0) = zero
StartKinds == {"start"}
StopKinds == {"stop", "stop-close", "stop-restart"}

\* this step emits measurements-started or measurements-stopped
CollectionNotified ==
    \E n \in DOMAIN last'.emitted :
        last'.emitted[n] \in {"measurements-started", "measurements-stopped"}

\* what a START or STOP acknowledgement does to the collecting flag
AcksSetCollecting ==
    /\ Acked(StartKinds, TRUE)
          => collecting' /\ last'.emitted = <<"measurements-started">>
    /\ Acked(StopKinds, TRUE)
          => /\ ~collecting'
             /\ last'.emitted # <<>> /\ last'.emitted[1] = "measurements-stopped"
    /\ Acked(StartKinds \cup StopKinds, FALSE)
          => collecting' = collecting /\ ~CollectionNotified

-----------------------------------------------------------------------------
(* Properties of the life cycle *)

\* the continuations of the commands of open(), in the order of its steps
OpenKinds == <<"init", "status", "defaultMask", "sensorIds", "sensorInfo", "deviceInfo">>
OpenStep(id) ==
    CHOOSE n \in DOMAIN OpenKinds : OpenKinds[n] = promise[id].cont.k
IsOpenStep(id) == \E n \in DOMAIN OpenKinds : OpenKinds[n] = promise[id].cont.k

\* an open() has begun and the device is not closed again: it is connecting,
\* initializing (a step of open() is awaited on a live link) or open
OpenBegun ==
    \/ setups # <<>>
    \/ link = "up" /\ \E id \in DOMAIN promise :
                          IsOpenStep(id) /\ promise[id].state = "pending"
    \/ opened

\* C15: open() called after an earlier open() has begun and before the device
\* is closed again fails with the already-open error and starts nothing: no
\* transport connect, no command
OpenOnlyFromClosed ==
    [][(last'.op = "open" /\ OpenBegun)
        => /\ last'.threw
           /\ setups' = setups /\ promise' = promise /\ queued' = queued]_vars
\* the step that may follow step k1 of open(): the next one, or the sensor-info
\* query of a higher channel, or device info once the channels are through
Follows(c1, c2) ==
    \/ <<c1.k, c2.k>> \in {<<"init", "status">>, <<"status", "defaultMask">>,
                           <<"defaultMask", "sensorIds">>, <<"sensorIds", "sensorInfo">>,
                           <<"sensorIds", "deviceInfo">>, <<"sensorInfo", "deviceInfo">>}
    \/ c1.k = "sensorInfo" /\ c2.k = "sensorInfo" /\ c1.i < c2.i

\* this step resolves the pending command id
Resolves(id) ==
    /\ last'.op = "notify" /\ last'.id = id
    /\ promise[id].state = "pending" /\ promise'[id].state = "resolved"

\* C16: open() queues INIT when the transport is connected and every later
\* command of its sequence only in the step that handles the response of the
\* one before; opened becomes true, with device-opened, only when the response
\* of device info arrives and every step before it was resolved, and never
\* when a step was rejected or a call of setup() failed
OpenInOrder ==
    [][/\ \A id \in DOMAIN promise' \ DOMAIN promise :
              promise'[id].cont.k \in {OpenKinds[n] : n \in DOMAIN OpenKinds}
              => IF promise'[id].cont.k = "init" THEN last'.op = "setup" /\ link' = "up"
                 ELSE \E id1 \in DOMAIN promise :
                          Resolves(id1) /\ Follows(promise[id1].cont, promise'[id].cont)
       /\ (opened' /\ ~opened)
              => /\ last'.emitted # <<>> /\ last'.emitted[1] = "device-opened"
                 /\ \E id \in DOMAIN promise :
                        Resolves(id) /\ promise[id].cont.k = "deviceInfo"
                 /\ \A id \in DOMAIN promise : promise'[id].state # "rejected"
                 /\ \A n \in DOMAIN OpenKinds :
                        \E id \in DOMAIN promise :
                            promise'[id].cont.k = OpenKinds[n]
                                /\ promise'[id].state = "resolved"
       /\ (\E n \in DOMAIN last'.emitted : last'.emitted[n] = "device-opened")
              => opened' /\ ~opened]_vars

\* the whole sequence was answered and the device is open, with one query for
\* each of the three channels it asks about
OpenInOrderWitness ==
    /\ opened /\ last.op = "notify" /\ last.emitted = <<"device-opened">>
    /\ Len(promise) = 8
    /\ \A id \in DOMAIN promise : promise[id].state = "resolved"
    /\ [id \in DOMAIN promise |-> promise[id].cont.k] =
          <<"init", "status", "defaultMask", "sensorIds", "sensorInfo", "sensorInfo",
            "sensorInfo", "deviceInfo">>
\* the sensor-info queries issued for channel n
SensorQueries(n) ==
    {id \in DOMAIN promise :
        promise[id].cont.k = "sensorInfo" /\ At(queued[id], 5) = n}

\* the enumeration is over: open() has gone on to device info
EnumerationDone == \E id \in DOMAIN promise : promise[id].cont.k = "deviceInfo"

\* C17: when the enumeration is over, exactly one sensor-info query was issued
\* for every channel 0..31 whose bit is set in the available-sensor mask, and
\* none for a channel whose bit is clear
OneQueryPerSetBit ==
    EnumerationDone
    => \A n \in 0..31 :
          Cardinality(SensorQueries(n)) = IF HasBit(availableSensors, n) THEN 1 ELSE 0
\* C18: the sensor collection holds at most one sensor per channel number
OneSensorPerChannel ==
    \A j, k \in DOMAIN sensors : sensors[j].number = sensors[k].number => j = k
-----------------------------------------------------------------------------
(* Properties of the transport boundary *)

\* C19: when the transport rejects the write of a queued command, the promise
\* of that command fails with it, and every other entry of the queue and every
\* other promise is left as it was
WriteFailurePropagates ==
    [][(last'.op = "tick" /\ last'.failed)
        => /\ promise[last'.id].state = "pending"
           /\ promise'[last'.id].state = "rejected"
           /\ \A id \in DOMAIN promise \ {last'.id} : promise'[id] = promise[id]
           /\ SelectSeq(writeQueue', LAMBDA q : q.id # last'.id)
                 = SelectSeq(writeQueue, LAMBDA q : q.id # last'.id)]_vars
\* C20: once the transport is disconnected, by disconnect() or by the link's
\* loss reported through onClosed, no tick of the write timer hands a queued
\* command to the transport
NoWriteAfterDisconnect ==
    [][(last'.op = "tick" /\ last'.id # 0) => link = "up"]_vars
-----------------------------------------------------------------------------
(* Properties of the constraint scan and of the restart *)

\* this step is a setEnabled(x) call that changes the flag of the sensor at index k
Transition(k, x) ==
    /\ last'.op = "setEnabled" /\ last'.args = <<k, x>>
    /\ k \in DOMAIN sensors /\ sensors[k].enabled # x

\* the typical periods of the sensors enabled after the step
EnabledPeriods == {sensors'[c].typicalPeriod : c \in {c \in DOMAIN sensors' : sensors'[c].enabled}}

Queues == DOMAIN promise' \ DOMAIN promise
QueuesOnly(sub, kind) ==
    /\ Len(promise') = Len(promise) + 1
    /\ promise'[Len(promise')].cont.k = kind
    /\ At(queued'[Len(promise')], 4) = sub[1]
QueuesNothing == promise' = promise /\ queued' = queued

\* this step rejects the pending command id by its timer
Rejects(id) ==
    /\ last'.op = "timeout" /\ last'.id = id
    /\ promise[id].state = "pending" /\ promise'[id].state = "rejected"

\* the response that resolves command id in this step has first byte 0
ZeroStatus(id) == promise'[id].value # <<>> /\ At(promise'[id].value, 0) = 0

\* the four mask bytes of the START packet that was queued last, and the
\* channel mask of the sensors enabled after this step
StartMask == SubSeq(queued'[Len(queued')], 8, 11)
EnabledMask ==
    MaskBytes({sensors'[c].number : c \in {c \in DOMAIN sensors' : sensors'[c].enabled}}, 4)

\* C22: a change of a sensor's enabled state during a collection run queues a
\* STOP; the zero-status response of that STOP queues SET_MEASUREMENT_PERIOD,
\* whose response queues a START with the channel mask of the sensors enabled
\* then; a STOP, period or START command of the restart that times out or is
\* answered without a status throws nothing and leaves the sensors as
\* setEnabled set them; a change while no run is active queues no command
RestartOnChange ==
    [][/\ \A k \in DOMAIN sensors, x \in BOOLEAN :
              Transition(k, x)
                  => /\ ~last'.threw
                     /\ IF collecting THEN QueuesOnly(STOP_MEASUREMENTS, "stop-restart")
                        ELSE QueuesNothing
       /\ \A id \in DOMAIN promise :
              /\ (promise[id].cont.k = "stop-restart" /\ Resolves(id) /\ ZeroStatus(id))
                    => /\ ~collecting'
                       /\ QueuesOnly(SET_MEASUREMENT_PERIOD, "period")
              /\ (promise[id].cont.k = "period" /\ Resolves(id))
                    => /\ QueuesOnly(START_MEASUREMENTS, "start")
                       /\ StartMask = EnabledMask
              /\ (promise[id].cont.k \in {"stop-restart", "period", "start"}
                    /\ (Rejects(id) \/ (Resolves(id) /\ promise'[id].value = <<>>)))
                    => /\ ~last'.threw /\ last'.emitted = <<>>
                       /\ sensors' = sensors /\ collecting' = collecting
       /\ \A id \in Queues :
              /\ promise'[id].cont.k = "stop-restart"
                    => collecting /\ \E k \in DOMAIN sensors, x \in BOOLEAN : Transition(k, x)
              /\ promise'[id].cont.k = "start"
                    => \E id1 \in DOMAIN promise :
                           promise[id1].cont.k = "period" /\ Resolves(id1)]_vars

\* a restart has run through: the sensor of channel 17 was enabled during a run, the
\* STOP was acknowledged and the START with the mask of channels 0 and 17 is queued
RestartOnChangeWitness ==
    /\ last.op = "notify" /\ last.id # 0
    /\ promise[last.id].cont.k = "period" /\ promise[last.id].state = "resolved"
    /\ \E id \in DOMAIN promise :
           /\ promise[id].cont.k = "stop-restart" /\ promise[id].state = "resolved"
           /\ At(promise[id].value, 0) = 0
    /\ Len(queued) = Len(promise) /\ promise[Len(promise)].cont.k = "start"
    /\ At(queued[Len(queued)], 4) = START_MEASUREMENTS[1]
    /\ SubSeq(queued[Len(queued)], 8, 11) = <<1, 0, 2, 0>>
    /\ ~collecting
-----------------------------------------------------------------------------
(* Properties of the writes *)

\* the chunks this step passes to device.writeCommand are slices of the packet
\* of their command, of 1 to maxPacketLength bytes
PassesSlices ==
    \A n \in DOMAIN last'.passed :
        LET c == last'.passed[n]
        IN  /\ Len(c.chunk) \in 1..maxPacketLength(adapter)
            /\ c.chunk = SubSeq(queued[c.id], c.at + 1, c.at + Len(c.chunk))

\* each chunk continues its packet where the chunk before it ended: the first
\* is passed by the write tick that takes the entry, a later one when the
\* write of the one before has settled or right after it in the same step
PassesInOrder ==
    \A n \in DOMAIN last'.passed :
        LET c == last'.passed[n]
        IN  IF n > 1 /\ last'.passed[n - 1].id = c.id
            THEN c.at = last'.passed[n - 1].at + Len(last'.passed[n - 1].chunk)
            ELSE IF c.at = 0
            THEN /\ last'.op = "tick" /\ c.id \notin wrote
                 /\ \A m \in DOMAIN writing : writing[m].id # c.id
            ELSE /\ last'.op = "written"
                 /\ \E m \in DOMAIN writing : writing[m].id = c.id /\ writing[m].offset = c.at

\* a #writeToDevice call ends only when the whole packet is passed
PassesWhole ==
    /\ \A m \in DOMAIN writing :
           (\A k \in DOMAIN writing' : writing'[k].id # writing[m].id)
               => writing[m].offset = Len(queued[writing[m].id])
    /\ \A n \in DOMAIN last'.passed :
           LET c == last'.passed[n]
           IN  \/ c.at + Len(c.chunk) = Len(queued[c.id])
               \/ n < Len(last'.passed) /\ last'.passed[n + 1].id = c.id
               \/ \E k \in DOMAIN writing' :
                      writing'[k].id = c.id /\ writing'[k].offset = c.at + Len(c.chunk)

\* no chunk is passed while another command has chunks left to pass
PassesApart ==
    \A n \in DOMAIN last'.passed :
        \A m \in DOMAIN writing :
            writing[m].id # last'.passed[n].id
                => writing[m].offset = Len(queued[writing[m].id])

\* C23: the chunks passed to the transport for a command are consecutive
\* slices of its packet of at most maxPacketLength bytes, passed in order, each
\* after the write before it has settled, up to the end of the packet, and no
\* chunk of another command is passed between them
ChunksInOrderAndApart ==
    [][PassesSlices /\ PassesInOrder /\ PassesWhole /\ PassesApart]_vars
-----------------------------------------------------------------------------
(* Properties of late timers *)

\* this step is the timer of a command that its response resolved before
LateTimer ==
    /\ last'.op = "timeout" /\ last'.id # 0
    /\ promise[last'.id].state = "resolved"

\* C24: the timer of a command already resolved by its response changes
\* nothing when it fires: the write queue is as before and no command is
\* removed, resolved or rejected
LateTimerHasNoEffect ==
    [][LateTimer => /\ writeQueue' = writeQueue
                    /\ promise' = promise]_vars
-----------------------------------------------------------------------------
(* Properties of mutual exclusion *)

\* C25: no two sensors are enabled of which one has the other's channel in
\* its exclusion mask
NoExcludedPairEnabled ==
    \A a \in DOMAIN sensors, b \in DOMAIN sensors :
        (a # b /\ sensors[a].enabled /\ sensors[b].enabled)
            => ~Excludes(sensors[a].mutalExclusionMask, sensors[b].number)

\* the sensors whose enabled flag this step changes, and the state-changed
\* notifications it emits
FlagsChanged ==
    {k \in DOMAIN sensors \cap DOMAIN sensors' : sensors'[k].enabled # sensors[k].enabled}
StateChangedEmitted ==
    {n \in DOMAIN last'.emitted : last'.emitted[n] = "state-changed"}

\* C26: every change of a sensor's enabled flag, the forced disable of an
\* excluded sensor included, comes with one state-changed notification: a step
\* emits as many as it changes flags
EveryFlagChangeNotified ==
    [][Cardinality(StateChangedEmitted) = Cardinality(FlagsChanged)]_vars
-----------------------------------------------------------------------------
(* Properties of the flags *)

\* C27: a device that is not open does not collect: collecting implies opened
CollectingOnlyWhenOpen == collecting => opened
-----------------------------------------------------------------------------
(* Properties of the decoder's failures *)

\* a whole measurement of a single-channel or aperiodic type, with its values
SingleChannelMeasurement(buf) ==
    /\ Len(buf) >= 8
    /\ At(buf, 4) \in {SINGLE_CHANNEL_REAL32, SINGLE_CHANNEL_INT32,
                       APERIODIC_REAL32, APERIODIC_INT32}
    /\ Len(buf) >= 8 + 4 * At(buf, 7)

\* a whole normal measurement, with a value for every known channel of its mask
NormalMeasurement(buf) ==
    /\ Len(buf) >= 9
    /\ At(buf, 4) = NORMAL_REAL32
    /\ Len(buf) >= 9 + 4 * At(buf, 7) * Cardinality(Selected(buf))

\* C28: the decoding of a whole measurement ends without an exception for
\* every sub-type; a single-channel or aperiodic measurement of a channel
\* without a sensor changes no sensor
DecodingNeverFails ==
    [][(last'.op = "notify" /\ last'.dispatch = "measurement"
            /\ (SingleChannelMeasurement(last'.buf) \/ NormalMeasurement(last'.buf)))
        => /\ ~last'.threw
           /\ (SingleChannelMeasurement(last'.buf)
                   /\ getSensor(sensors, At(last'.buf, 6)) = 0)
                 => sensors' = sensors]_vars
=============================================================================
